---- MODULE Spec2Model ----
(***************************************************************************)
(* Turn lifecycle of the stock-transaction agent client.                   *)
(*   main.py         console runner: one turn per process                  *)
(*   stream_main.py  Streamlit runner: one turn per button press, the      *)
(*                   components kept in st.session_state across reruns     *)
(* The agent framework, the session store and the summary model are        *)
(* external: each call into them either succeeds or raises, and the event  *)
(* stream yields an arbitrary bounded sequence of events.                  *)
(***************************************************************************)
EXTENDS Integers, Sequences, FiniteSets, TLC

MaxStream == 3      \* events one stream emits at most
MaxTurns == 2       \* turns started in one UI process at most
MaxMsg == 2         \* characters of the request text at most

None == "None"
Obj == "obj"

\* the fixed identifier triple
Triple == <<"stock_transaction_app", "user1", "session1">>

PromptQuestion == "Analyze the response and provide insights only in 200 words."

\* text of the first content part of an event; NoContent: content is None or
\* has no parts, so reading content.parts[0].text raises
NoContent == "NoContent"
Texts == {"", "rows"}

EventShapes ==
    {[final |-> FALSE, content |-> "partial"]} \cup
    {[final |-> TRUE, content |-> c] : c \in Texts \cup {NoContent}}

\* what awaiting the next event can do besides yielding one
StopItem == [final |-> FALSE, content |-> "StopAsyncIteration"]
RaiseItem == [final |-> FALSE, content |-> "raise"]

\* request texts: sequences over a blank and a letter
Chars == {" ", "a"}
Messages == UNION {[1..n -> Chars] : n \in 0..MaxMsg}

VARIABLES
    prog,           \* "console" or "ui": which script the process runs
    keyPresent,     \* GEMINI_API_KEY is in os.environ
    pc,             \* position of the process
    ss,             \* st.session_state
    rendered,       \* widgets drawn by the latest script run
    sessions,       \* InMemorySessionService: triple -> session
    nextObj,        \* identity of the next session object
    turn,           \* turns started so far
    storeAtStart,   \* the store when the current turn started
    session,        \* local `session` of the turn
    opened,         \* agent_stream exists
    closeCount,     \* calls of agent_stream.aclose() in this turn
    emitted,        \* events the stream has yielded in this turn
    events,         \* local `events` of fetch_stock_transactions
    final_response, \* local `final_response`
    insights,       \* local `insights`
    summaryCalls,   \* prompts passed to model.generate_content in this turn
    printed,        \* console output of this turn
    err,            \* what raised in this turn
    ret,            \* value fetch_stock_transactions returned
    outcome         \* how the turn ended

vars == <<prog, keyPresent, pc, ss, rendered, sessions, nextObj, turn,
          storeAtStart, session, opened, closeCount, emitted, events,
          final_response, insights, summaryCalls, printed, err, ret, outcome>>

turnVars == <<storeAtStart, session, opened, closeCount, emitted, events,
              final_response, insights, summaryCalls, printed, err, ret,
              outcome>>

uiVars == <<ss, rendered>>

----------------------------------------------------------------------------
\* pure helpers

\* Python truthiness of an optional string
Truthy(x) == x # None /\ x # ""

\* str.strip()
RECURSIVE LStrip(_)
LStrip(s) == IF s # <<>> /\ Head(s) = " " THEN LStrip(Tail(s)) ELSE s

RECURSIVE RStrip(_)
RStrip(s) ==
    IF s # <<>> /\ s[Len(s)] = " " THEN RStrip(SubSeq(s, 1, Len(s) - 1)) ELSE s

Strip(s) == RStrip(LStrip(s))

\* event.is_final_response()
is_final_response(e) == e.final

\* str(event): the text recorded in the log for the k-th event
StrOf(k, e) == <<"event", k, e.final, e.content>>

\* f"{prompt_question} {final_response}"
Prompt(text) == <<PromptQuestion, " ", text>>

\* response.text of the summary model
ResponseText(prompt) == <<"insights", prompt[3]>>

\* all([model, agent, session_service, toolset])
AllTruthy(c) == \A i \in 1..Len(c) : c[i] # None

EmptyStore == [t \in {} |-> None]

\* no session object, no return value yet
NoSession == [obj |-> 0, last_result |-> None]
NoReturn == <<None, None, <<>> >>

\* the agent framework records the final text under output_key
WriteOutputKey(store, e) ==
    IF is_final_response(e) /\ e.content # NoContent /\ Triple \in DOMAIN store
    THEN [store EXCEPT ![Triple].last_result = e.content]
    ELSE store

\* InMemorySessionService.create_session on success: a new session object
\* with empty state is stored under the triple, replacing any previous one
create_session(store, k) == Triple :> [obj |-> k, last_result |-> None]

----------------------------------------------------------------------------
FreshTurn ==
    /\ storeAtStart' = sessions
    /\ session' = NoSession
    /\ opened' = FALSE
    /\ closeCount' = 0
    /\ emitted' = <<>>
    /\ events' = <<>>
    /\ final_response' = None
    /\ insights' = None
    /\ summaryCalls' = <<>>
    /\ printed' = <<>>
    /\ err' = "none"
    /\ ret' = NoReturn
    /\ outcome' = "running"

EmptySS ==
    [has_ci |-> FALSE, components_initialized |-> FALSE,
     model |-> None, agent |-> None, session_service |-> None, toolset |-> None,
     has_result |-> FALSE, final_response |-> None, insights |-> None,
     events |-> <<>>]

Init ==
    /\ prog \in {"console", "ui"}
    /\ keyPresent \in BOOLEAN
    /\ pc = IF prog = "console" THEN "m_module" ELSE "ui_idle"
    /\ ss = EmptySS
    /\ rendered = {}
    /\ sessions = EmptyStore
    /\ nextObj = 1
    /\ turn = 0
    /\ storeAtStart = EmptyStore
    /\ session = NoSession
    /\ opened = FALSE
    /\ closeCount = 0
    /\ emitted = <<>>
    /\ events = <<>>
    /\ final_response = None
    /\ insights = None
    /\ summaryCalls = <<>>
    /\ printed = <<>>
    /\ err = "none"
    /\ ret = NoReturn
    /\ outcome = "idle"

----------------------------------------------------------------------------
\* main.py

\* module level: os.environ["GEMINI_API_KEY"] raises KeyError when missing
M_Module ==
    /\ prog = "console" /\ pc = "m_module"
    /\ IF keyPresent
       THEN /\ pc' = "m_create"
            /\ turn' = turn + 1
            /\ FreshTurn
       ELSE /\ pc' = "m_crashed"
            /\ UNCHANGED <<turn, turnVars>>
    /\ UNCHANGED <<prog, keyPresent, uiVars, sessions, nextObj>>

\* create_session, Runner, run_async: outside the try block
M_CreateSession(ok) ==
    /\ prog = "console" /\ pc = "m_create"
    /\ IF ok
       THEN /\ sessions' = create_session(sessions, nextObj)
            /\ nextObj' = nextObj + 1
            /\ session' = sessions'[Triple]
            /\ printed' = Append(printed, <<"Initial state:", None>>)
            /\ opened' = TRUE
            /\ pc' = "m_iter"
            /\ UNCHANGED <<err, outcome>>
       ELSE /\ err' = "session"
            /\ outcome' = "raised"
            /\ pc' = "m_done"
            /\ UNCHANGED <<sessions, nextObj, session, printed, opened>>
    /\ UNCHANGED <<prog, keyPresent, uiVars, turn, storeAtStart, closeCount,
                   emitted, events, final_response, insights, summaryCalls, ret>>

\* the except clause: print the error, fall into finally
M_Except(kind, out) ==
    /\ err' = kind
    /\ printed' = Append(out, <<"Error during agent stream:", kind>>)
    /\ pc' = "m_finally"

\* one pass of `async for event in agent_stream` with the loop body
M_Next(item, sumOk) ==
    /\ prog = "console" /\ pc = "m_iter"
    /\ item \in EventShapes => Len(emitted) < MaxStream
    /\ IF item = StopItem
       THEN /\ pc' = "m_finally"
            /\ UNCHANGED <<emitted, printed, summaryCalls, err, sessions>>
       ELSE IF item = RaiseItem
       THEN /\ M_Except("stream", printed)
            /\ UNCHANGED <<emitted, summaryCalls, sessions>>
       ELSE LET k == Len(emitted) + 1
                p1 == Append(printed, <<"Agent Event:", StrOf(k, item)>>)
            IN  /\ emitted' = Append(emitted, item)
                /\ sessions' = WriteOutputKey(sessions, item)
                /\ IF ~is_final_response(item)
                   THEN /\ printed' = p1
                        /\ pc' = "m_iter"
                        /\ UNCHANGED <<summaryCalls, err>>
                   ELSE IF item.content = NoContent
                   THEN /\ M_Except("content", Append(p1, <<"Agent Final Response:">>))
                        /\ UNCHANGED summaryCalls
                   ELSE LET p2 == p1 \o << <<"Agent Final Response:">>,
                                            <<"text", item.content>> >>
                            q == Prompt(item.content)
                        IN  /\ summaryCalls' = Append(summaryCalls, q)
                            /\ IF sumOk
                               THEN /\ printed' = Append(p2, <<"Final Response:", ResponseText(q)>>)
                                    /\ pc' = "m_iter"
                                    /\ UNCHANGED err
                               ELSE M_Except("summary", p2)
    /\ UNCHANGED <<prog, keyPresent, uiVars, nextObj, turn, storeAtStart,
                   session, opened, closeCount, events, final_response,
                   insights, ret, outcome>>

\* finally: await agent_stream.aclose()
M_Finally(closeOk) ==
    /\ prog = "console" /\ pc = "m_finally"
    /\ closeCount' = closeCount + 1
    /\ pc' = "m_done"
    /\ IF closeOk
       THEN outcome' = "returned" /\ UNCHANGED err
       ELSE outcome' = "raised" /\ err' = "close"
    /\ UNCHANGED <<prog, keyPresent, uiVars, sessions, nextObj, turn,
                   storeAtStart, session, opened, emitted, events,
                   final_response, insights, summaryCalls, printed, ret>>

----------------------------------------------------------------------------
\* stream_main.py

\* initialize_components() without the check of the key
initialize_components_NoKeyCheck(key, constructOk) ==
    IF constructOk
    THEN [comps |-> <<Obj, Obj, Obj, Obj>>, shown |-> {}]
    ELSE [comps |-> <<None, None, None, None>>, shown |-> {"error_initializing"}]

\* initialize_components(): the four components, or four None
initialize_components(key, constructOk) ==
    IF ~key
    THEN [comps |-> <<None, None, None, None>>, shown |-> {"error_key_missing"}]
    ELSE IF constructOk
    THEN [comps |-> <<Obj, Obj, Obj, Obj>>, shown |-> {}]
    ELSE [comps |-> <<None, None, None, None>>, shown |-> {"error_initializing"}]

\* the "Display results" block and the footer
Display(s) ==
    (IF s.has_result /\ Truthy(s.final_response)
     THEN {"transaction_data", "download"} \cup
          (IF Truthy(s.insights) THEN {"insights"} ELSE {"no_insights"})
     ELSE {}) \cup {"footer"}

\* the main interface down to the submit button
Interface(key) ==
    {"status", "form"} \cup (IF key THEN {"key_found"} ELSE {"key_missing"})

\* fetch_stock_transactions: the except clause
F_Except(kind) ==
    /\ err' = kind
    /\ ret' = <<None, None, <<"Error", kind>> >>
    /\ outcome' = "returned"
    /\ pc' = "f_ret"

\* one run of the script main() up to its end or to the call of
\* fetch_stock_transactions
UI_Rerun(button, m, dotenv, constructOk, bridgeOk) ==
    /\ prog = "ui" /\ pc = "ui_idle"
    /\ button => "form" \in rendered
    /\ button /\ Strip(m) # <<>> => turn < MaxTurns
    /\ keyPresent' = (keyPresent \/ dotenv)
    /\ LET s0 == IF ss.has_ci THEN ss
                 ELSE [ss EXCEPT !.has_ci = TRUE,
                                 !.components_initialized = FALSE,
                                 !.model = None, !.agent = None,
                                 !.session_service = None, !.toolset = None]
           ic == initialize_components(keyPresent', constructOk)
       IN
       IF ~s0.components_initialized
       THEN IF AllTruthy(ic.comps)
            THEN /\ ss' = [s0 EXCEPT !.model = ic.comps[1], !.agent = ic.comps[2],
                                     !.session_service = ic.comps[3],
                                     !.toolset = ic.comps[4],
                                     !.components_initialized = TRUE]
                 /\ rendered' = ic.shown \cup {"success_initialized"}
                 /\ pc' = "ui_idle"
                 /\ UNCHANGED <<turn, turnVars>>
            ELSE /\ ss' = s0
                 /\ rendered' = ic.shown \cup {"error_failed_to_initialize"}
                 /\ pc' = "ui_idle"
                 /\ UNCHANGED <<turn, turnVars>>
       ELSE IF ~button
       THEN /\ ss' = s0
            /\ rendered' = Interface(keyPresent') \cup Display(s0)
            /\ pc' = "ui_idle"
            /\ UNCHANGED <<turn, turnVars>>
       ELSE IF Strip(m) = <<>>
       THEN /\ ss' = s0
            /\ rendered' = Interface(keyPresent') \cup {"warning_enter_request"}
                              \cup Display(s0)
            /\ pc' = "ui_idle"
            /\ UNCHANGED <<turn, turnVars>>
       ELSE IF ~bridgeOk
       THEN \* run_async_function raises: caught by main's except clause
            /\ ss' = s0
            /\ rendered' = Interface(keyPresent') \cup {"error_processing_request"}
                              \cup Display(s0)
            /\ pc' = "ui_idle"
            /\ UNCHANGED <<turn, turnVars>>
       ELSE /\ ss' = s0
            /\ rendered' = Interface(keyPresent')
            /\ turn' = turn + 1
            /\ FreshTurn
            /\ pc' = "f_create"
    /\ UNCHANGED <<prog, sessions, nextObj>>

\* create_session, Runner, run_async, events = [], final_response = None
F_CreateSession(ok) ==
    /\ prog = "ui" /\ pc = "f_create"
    /\ IF ok
       THEN /\ sessions' = create_session(sessions, nextObj)
            /\ nextObj' = nextObj + 1
            /\ session' = sessions'[Triple]
            /\ opened' = TRUE
            /\ pc' = "f_iter"
            /\ UNCHANGED <<err, ret, outcome>>
       ELSE /\ F_Except("session")
            /\ UNCHANGED <<sessions, nextObj, session, opened>>
    /\ UNCHANGED <<prog, keyPresent, uiVars, turn, storeAtStart, closeCount,
                   emitted, events, final_response, insights, summaryCalls,
                   printed>>

\* one pass of `async for event in agent_stream` with the loop body
F_Next(item) ==
    /\ prog = "ui" /\ pc = "f_iter"
    /\ item \in EventShapes => Len(emitted) < MaxStream
    /\ IF item = StopItem
       THEN /\ pc' = "f_insights"
            /\ UNCHANGED <<emitted, events, final_response, err, ret, outcome,
                           sessions>>
       ELSE IF item = RaiseItem
       THEN /\ F_Except("stream")
            /\ UNCHANGED <<emitted, events, final_response, sessions>>
       ELSE /\ emitted' = Append(emitted, item)
            /\ sessions' = WriteOutputKey(sessions, item)
            /\ events' = Append(events, StrOf(Len(emitted) + 1, item))
            /\ IF ~is_final_response(item)
               THEN /\ pc' = "f_iter"
                    /\ UNCHANGED <<final_response, err, ret, outcome>>
               ELSE IF item.content = NoContent
               THEN /\ F_Except("content")
                    /\ UNCHANGED final_response
               ELSE /\ final_response' = item.content
                    /\ pc' = "f_insights"
                    /\ UNCHANGED <<err, ret, outcome>>
    /\ UNCHANGED <<prog, keyPresent, uiVars, nextObj, turn, storeAtStart,
                   session, opened, closeCount, insights, summaryCalls, printed>>

\* "Generate insights"
F_Insights(sumOk) ==
    /\ prog = "ui" /\ pc = "f_insights"
    /\ IF Truthy(final_response)
       THEN LET q == Prompt(final_response)
            IN  /\ summaryCalls' = Append(summaryCalls, q)
                /\ IF sumOk
                   THEN /\ insights' = ResponseText(q)
                        /\ pc' = "f_close"
                        /\ UNCHANGED <<err, ret, outcome>>
                   ELSE /\ F_Except("summary")
                        /\ UNCHANGED insights
       ELSE /\ pc' = "f_close"
            /\ UNCHANGED <<summaryCalls, insights, err, ret, outcome>>
    /\ UNCHANGED <<prog, keyPresent, uiVars, sessions, nextObj, turn,
                   storeAtStart, session, opened, closeCount, emitted, events,
                   final_response, printed>>

\* "Clean up" and return
F_Close(closeOk) ==
    /\ prog = "ui" /\ pc = "f_close"
    /\ closeCount' = closeCount + 1
    /\ IF closeOk
       THEN /\ ret' = <<final_response, insights, events>>
            /\ outcome' = "returned"
            /\ pc' = "f_ret"
            /\ UNCHANGED err
       ELSE F_Except("close")
    /\ UNCHANGED <<prog, keyPresent, uiVars, sessions, nextObj, turn,
                   storeAtStart, session, opened, emitted, events,
                   final_response, insights, summaryCalls, printed>>

\* main(): store the results in session state, then display
UI_StoreResults ==
    /\ prog = "ui" /\ pc = "f_ret"
    /\ ss' = [ss EXCEPT !.has_result = TRUE, !.final_response = ret[1],
                        !.insights = ret[2], !.events = ret[3]]
    /\ rendered' = rendered \cup Display(ss')
    /\ pc' = "ui_idle"
    /\ UNCHANGED <<prog, keyPresent, sessions, nextObj, turn, turnVars>>

----------------------------------------------------------------------------
Items == EventShapes \cup {StopItem, RaiseItem}

Next ==
    \/ M_Module
    \/ \E ok \in BOOLEAN : M_CreateSession(ok)
    \/ \E item \in Items, sumOk \in BOOLEAN : M_Next(item, sumOk)
    \/ \E closeOk \in BOOLEAN : M_Finally(closeOk)
    \/ \E button, dotenv, constructOk, bridgeOk \in BOOLEAN, m \in Messages :
          UI_Rerun(button, m, dotenv, constructOk, bridgeOk)
    \/ \E ok \in BOOLEAN : F_CreateSession(ok)
    \/ \E item \in Items : F_Next(item)
    \/ \E sumOk \in BOOLEAN : F_Insights(sumOk)
    \/ \E closeOk \in BOOLEAN : F_Close(closeOk)
    \/ UI_StoreResults

Spec == Init /\ [][Next]_vars

----------------------------------------------------------------------------
\* views of a turn used by the properties

\* the turn has handed control back
TurnOver == outcome \in {"returned", "raised"}

\* the first terminal event the stream yielded in this turn, 0 when none
FirstFinal ==
    IF \E k \in 1..Len(emitted) : emitted[k].final
    THEN CHOOSE k \in 1..Len(emitted) :
            emitted[k].final /\ \A j \in 1..(k - 1) : ~emitted[j].final
    ELSE 0

\* the event is terminal and its first content part carries non-empty text
HasText(e) == e.final /\ e.content \in Texts /\ Truthy(e.content)

\* the final text the turn delivered: what fetch_stock_transactions returned,
\* what main.py printed under "Agent Final Response:"
PrintedTexts == {printed[i][2] : i \in {j \in 1..Len(printed) : printed[j][1] = "text"}}

DeliveredNonEmpty ==
    IF prog = "ui" THEN Truthy(ret[1]) ELSE \E t \in PrintedTexts : Truthy(t)

ReasonReported ==
    IF prog = "ui"
    THEN ret[3] = <<"Error", err>>
    ELSE \E i \in 1..Len(printed) : printed[i] = <<"Error during agent stream:", err>>

ErrorWidgets ==
    {"error_key_missing", "error_initializing", "error_failed_to_initialize",
     "error_processing_request"}

\* C1: once the event stream of a turn has been opened, it has been closed
\* exactly once when the turn hands control back, whatever the exit path.
C1_ClosedExactlyOnce == (TurnOver /\ opened) => closeCount = 1

\* C2: a turn never raises past the turn boundary: it returns, with a
\* non-empty final text, or with no final text and, when something failed, a
\* reported reason.
C2_NeverRaises ==
    TurnOver =>
        /\ outcome = "returned"
        /\ \/ DeliveredNonEmpty
           \/ err # "none" => ReasonReported

\* C3: on the second and later turns of a UI process the session acquired
\* for the fixed triple is the session object already in the store, with the
\* state it had when the turn started.
C3_SameSession ==
    (/\ prog = "ui" /\ turn >= 2
     /\ Triple \in DOMAIN storeAtStart
     /\ pc \in {"f_iter", "f_insights", "f_close", "f_ret"})
        => session = storeAtStart[Triple]

\* C4: every summary call of a turn is given the non-empty text of a
\* terminal event already consumed in that turn.
C4_SummaryOnlyOnText ==
    \A i \in 1..Len(summaryCalls) :
        /\ Truthy(summaryCalls[i][3])
        /\ \E k \in 1..Len(emitted) :
              emitted[k].final /\ emitted[k].content = summaryCalls[i][3]

\* C5: when the summary call raises after a final text was extracted,
\* fetch_stock_transactions returns that text with absent insights, and the
\* page then shows the transaction data with "No insights available".
C5_SummaryFailureContained ==
    (prog = "ui" /\ err = "summary") =>
        /\ pc = "f_ret" => ret[1] = final_response /\ ret[2] = None
        /\ pc = "ui_idle" => {"transaction_data", "no_insights"} \subseteq rendered

\* C6: while GEMINI_API_KEY is missing, the UI process has not crashed, a
\* script run has reported the configuration error, none of the four
\* components exists, components_initialized is false, the request form is
\* not shown and no turn has been started.
C6_MissingKey ==
    (prog = "ui" /\ ~keyPresent) =>
        /\ pc = "ui_idle"
        /\ ~ss.components_initialized
        /\ ss.model = None /\ ss.agent = None
        /\ ss.session_service = None /\ ss.toolset = None
        /\ "form" \notin rendered
        /\ turn = 0
        /\ ss.has_ci => "error_key_missing" \in rendered

\* C6 witness: a script run has happened with the key missing
C6_Witness ==
    prog = "ui" /\ ~keyPresent /\ ss.has_ci /\ "error_key_missing" \in rendered

\* C7: after a UI turn in which consuming the event stream raised, the page
\* shows an error message.
C7_StreamErrorVisible ==
    (prog = "ui" /\ pc = "ui_idle" /\ err = "stream") =>
        rendered \cap ErrorWidgets # {}

\* C8: a second or later UI turn whose stream yields a terminal event with
\* text returns that text to its caller.
C8_LaterTurnDelivers ==
    (/\ prog = "ui" /\ turn >= 2 /\ pc = "f_ret"
     /\ FirstFinal # 0 /\ HasText(emitted[FirstFinal]))
        => ret[1] = emitted[FirstFinal].content

\* C9: the log fetch_stock_transactions returns is the consumed events in
\* emission order, one entry each, and a terminal event met in the turn is
\* its last entry (stated for the turns that consumed at least one event).
C9_LogInOrder ==
    (prog = "ui" /\ pc = "f_ret" /\ emitted # <<>>) =>
        /\ ret[3] = [k \in 1..Len(emitted) |-> StrOf(k, emitted[k])]
        /\ FirstFinal # 0 =>
              /\ ret[3] # <<>>
              /\ ret[3][Len(ret[3])] = StrOf(FirstFinal, emitted[FirstFinal])

\* C10: nothing is consumed after the first terminal event of a turn, and a
\* turn makes at most one summary call.
C10_StopsAtFirstFinal ==
    /\ FirstFinal # 0 => Len(emitted) = FirstFinal
    /\ Len(summaryCalls) <= 1

====
